---- MODULE Spec2Model ----
(***************************************************************************)
(* Model of flash.py: the `link` command of the dotfile linker.            *)
(*                                                                         *)
(* One run of `link NAME [-i]` is a sequential program: the entry command  *)
(* check, the required dependencies, the optional dependencies, the        *)
(* resolution of an empty `files` list, one symlink per file and the       *)
(* post-link action.  Strings that the code builds or takes apart          *)
(* (shell commands, messages, paths) are sequences of tokens.  Every       *)
(* answer to click.confirm and every status of os.system is an input of    *)
(* the step that asks for it.                                              *)
(***************************************************************************)
EXTENDS Integers, Sequences, FiniteSets, TLC

VARIABLES
    interactive,      \* the -i flag of `link`
    config,           \* the parsed .flash.toml (read_config)
    entry_dir,        \* names of the items of the entry directory
    path,             \* the commands shutil.which resolves
    fs,               \* the paths under the user's home: node kind and target
    fs0,              \* fs as the run found it
    path0,            \* path as the run found it
    pc,               \* position in link()
    idx,              \* index of the current loop (dependency, file, command)
    filenames,        \* the local `filenames` of link()
    links,            \* the local `links` of link()
    step_num,         \* LinkHandler.step_num
    last_waitstatus,  \* the local of do_after_action
    exc,              \* what ended the run ("" while running or on return)
    exit_code,        \* process exit status; -1 while running
    trace             \* the calls made so far, in order

vars == <<interactive, config, entry_dir, path, fs, fs0, path0, pc, idx, filenames, links,
          step_num, last_waitstatus, exc, exit_code, trace>>

----------------------------------------------------------------------------
(* Bounds of the model *)
MaxDeps == 2
MaxFiles == 2
MaxCmds == 2

----------------------------------------------------------------------------
(* Constants of the program *)
LINK_CONFIG_FILE_NAME == ".flash.toml"
supported_managers == {"pacman", "yay", "brew"}
LinkMode == TRUE

(* One call in the trace: op names the function, arg its argument, res its   *)
(* result (an os.system wait status, 1/0 for an accepted/declined prompt).   *)
Ev(op, arg, res) == [op |-> op, arg |-> arg, res |-> res]

RECURSIVE SeqsUpTo(_, _)
SeqsUpTo(S, n) ==
    IF n = 0 THEN {<<>>}
    ELSE LET shorter == SeqsUpTo(S, n - 1)
         IN shorter \cup {Append(s, x) : s \in {t \in shorter : Len(t) = n - 1}, x \in S}

RECURSIVE Perms(_)
Perms(S) ==
    IF S = {} THEN {<<>>}
    ELSE UNION {{<<x>> \o p : p \in Perms(S \ {x})} : x \in S}

SelectOps(tr, op) == SelectSeq(tr, LAMBDA e : e.op = op)

----------------------------------------------------------------------------
(* command_exits: shutil.which finds the command *)
command_exits(cmd, p) == cmd \in p

(* os.system: the wait status of `sh -c cmd`.  An empty command line exits  *)
(* 0, a command whose first word is not found exits 127, any other command  *)
(* exits 0 or 1.  The wait status of exit code e is e * 256.                *)
os_system(cmd, p) ==
    IF cmd = <<>> THEN {0}
    ELSE IF ~command_exits(Head(cmd), p) THEN {127 * 256}
    ELSE {0, 256}

(* os.waitstatus_to_exitcode; exit() keeps the low 8 bits *)
waitstatus_to_exitcode(s) ==
    IF s % 128 = 0 THEN (s \div 256) % 256 ELSE 0 - (s % 128)

exit_status(n) == n % 256

(* unify_manager_confs with ManagerConf(name=v, package=v) for a bare name *)
unify_manager_confs_self(cmd, confs) ==
    [k \in 1..Len(confs) |->
        IF confs[k].str
        THEN [str |-> FALSE, name |-> confs[k].name, package |-> confs[k].name]
        ELSE confs[k]]

(* unify_manager_confs: a bare manager name becomes ManagerConf(name, cmd) *)
unify_manager_confs(cmd, confs) ==
    [k \in 1..Len(confs) |->
        IF confs[k].str
        THEN [str |-> FALSE, name |-> confs[k].name, package |-> cmd]
        ELSE confs[k]]

(* handle_package: the possible results [err, trace] *)
handle_package(package, manager, link, p) ==
    LET cmd == IF manager \in {"pacman", "yay"}
               THEN LET c == <<manager, IF link THEN "-S" ELSE "-Rs", package>>
                    IN IF manager = "pacman" THEN <<"sudo">> \o c ELSE c
               ELSE <<manager, IF link THEN "install" ELSE "uninstall", package>>
    IN IF manager \notin {"pacman", "yay", "brew"}
       THEN {[err |-> <<"unknown package manager", manager>>, trace |-> <<>>]}
       ELSE {[err |-> IF s # 0 THEN <<"failed to install", package, manager>> ELSE <<>>,
              trace |-> <<Ev("handle_package", <<manager, package>>, s),
                          Ev("os.system", cmd, s)>>]
             : s \in os_system(cmd, p)}

(* try_installed without the `return ""` at the first success *)
RECURSIVE try_installed_no_return(_, _, _, _)
try_installed_no_return(cmd, installed, link, p) ==
    IF installed = <<>> THEN {[ret |-> <<"failed">>, trace |-> <<>>]}
    ELSE LET m == Head(installed)
             pkg == IF m.package # "" THEN m.package ELSE cmd
         IN UNION {
              {[ret |-> IF r.err # <<>> THEN t.ret ELSE <<>>,
                trace |-> r.trace
                          \o (IF r.err # <<>> THEN <<Ev("warn", r.err, 0)>> ELSE <<>>)
                          \o t.trace]
               : t \in try_installed_no_return(cmd, Tail(installed), link, p)}
              : r \in handle_package(pkg, m.name, link, p)}

(* The loop of handle_package_managers over `installed` (lines 257-263) *)
RECURSIVE try_installed(_, _, _, _)
try_installed(cmd, installed, link, p) ==
    IF installed = <<>> THEN {[ret |-> <<"failed">>, trace |-> <<>>]}
    ELSE LET m == Head(installed)
             pkg == IF m.package # "" THEN m.package ELSE cmd
         IN UNION {
              IF r.err # <<>>
              THEN {[ret |-> t.ret,
                     trace |-> r.trace \o <<Ev("warn", r.err, 0)>> \o t.trace]
                    : t \in try_installed(cmd, Tail(installed), link, p)}
              ELSE {[ret |-> <<>>, trace |-> r.trace]}
              : r \in handle_package(pkg, m.name, link, p)}

(* installed_managers without the discovery of the managers on PATH *)
installed_managers_no_discovery(cmd, managers, p) ==
    {SelectSeq(SelectSeq(managers, LAMBDA m : m.name \in supported_managers),
               LAMBDA m : command_exits(m.name, p))}

(* The candidates of handle_package_managers (lines 243-253).  Iterating   *)
(* the set supported_managers has no fixed order.                          *)
installed_managers(cmd, managers, p) ==
    IF managers = <<>>
    THEN {[k \in 1..Len(o) |-> [str |-> FALSE, name |-> o[k], package |-> cmd]]
          : o \in Perms({m \in supported_managers : command_exits(m, p)})}
    ELSE {SelectSeq(SelectSeq(managers, LAMBDA m : m.name \in supported_managers),
                    LAMBDA m : command_exits(m.name, p))}

(* handle_package_managers without the test `if not supported` *)
handle_package_managers_unchecked(cmd, managers, link, p) ==
    UNION {
      IF installed = <<>>
      THEN {[ret |-> <<"no installed package manager found">>, trace |-> <<>>]}
      ELSE try_installed(cmd, installed, link, p)
      : installed \in installed_managers(cmd, managers, p)}

(* handle_package_managers: the possible results [ret, trace] *)
handle_package_managers(cmd, managers, link, p) ==
    IF managers # <<>> /\ SelectSeq(managers, LAMBDA m : m.name \in supported_managers) = <<>>
    THEN {[ret |-> <<"no supported package manager found">>, trace |-> <<>>]}
    ELSE UNION {
           IF installed = <<>>
           THEN {[ret |-> <<"no installed package manager found">>, trace |-> <<>>]}
           ELSE try_installed(cmd, installed, link, p)
           : installed \in installed_managers(cmd, managers, p)}

(* The loop of install_command over `commands` (lines 277-281): the possible *)
(* sequences of os.system calls.                                             *)
RECURSIVE run_commands(_, _)
run_commands(commands, p) ==
    IF commands = <<>> THEN {<<>>}
    ELSE {<<Ev("os.system", Head(commands), s)>> \o t
          : s \in os_system(Head(commands), p), t \in run_commands(Tail(commands), p)}

(* A command string is blank when it has no token; its leading token is its *)
(* first one (c.strip(), stripped.split()[0]).                              *)
valid_commands(commands, p) ==
    SelectSeq(commands, LAMBDA c : c # <<>> /\ command_exits(Head(c), p))

(* install_command without the test of valid_commands *)
install_command_unfiltered(commands, p) ==
    {[exc |-> IF \E k \in 1..Len(t) : t[k].res = 0
              THEN <<>> ELSE <<"install failed">>,
      trace |-> t]
     : t \in run_commands(commands, p)}

(* install_command: the possible results [exc, trace]; exc is the message of *)
(* the raised Exception, <<>> on return.                                      *)
install_command(commands, p) ==
    IF Len(valid_commands(commands, p)) = 0
    THEN {[exc |-> <<"no valid command">>, trace |-> <<>>]}
    ELSE {[exc |-> IF \E k \in 1..Len(t) : t[k].res = 0
                   THEN <<>> ELSE <<"install failed">>,
           trace |-> t]
          : t \in run_commands(commands, p)}

(* cmd_install_command without the test `if not interactive` *)
cmd_install_command_prompting(inter, cmd, install_cmds, p) ==
    LET probe == Ev("command_exits", <<cmd>>, IF command_exits(cmd, p) THEN 1 ELSE 0)
    IN
    IF cmd = "" THEN {[exc |-> "", msg |-> <<>>, trace |-> <<>>]}
    ELSE IF command_exits(cmd, p) THEN {[exc |-> "", msg |-> <<>>, trace |-> <<probe>>]}
    ELSE {[exc |-> "Abort", msg |-> <<>>,
           trace |-> <<probe, Ev("confirm", <<"Install", cmd>>, 0)>>]}
         \cup
         (IF Len(install_cmds) = 0
          THEN {[exc |-> "ClickException", msg |-> <<"No install_cmds">>,
                 trace |-> <<probe, Ev("confirm", <<"Install", cmd>>, 1)>>]}
          ELSE {[exc |-> IF r.exc # <<>> THEN "ClickException" ELSE "",
                 msg |-> r.exc,
                 trace |-> <<probe, Ev("confirm", <<"Install", cmd>>, 1)>> \o r.trace]
                : r \in install_command(install_cmds, p)})

(* cmd_install_command without the test `cmd != ""` *)
cmd_install_command_probe_empty(inter, cmd, install_cmds, p) ==
    LET probe == Ev("command_exits", <<cmd>>, IF command_exits(cmd, p) THEN 1 ELSE 0)
    IN
    IF command_exits(cmd, p) THEN {[exc |-> "", msg |-> <<>>, trace |-> <<probe>>]}
    ELSE IF ~inter
    THEN {[exc |-> "ClickException", msg |-> <<"Command not found", cmd>>,
           trace |-> <<probe>>]}
    ELSE {[exc |-> "Abort", msg |-> <<>>,
           trace |-> <<probe, Ev("confirm", <<"Install", cmd>>, 0)>>]}
         \cup
         (IF Len(install_cmds) = 0
          THEN {[exc |-> "ClickException", msg |-> <<"No install_cmds">>,
                 trace |-> <<probe, Ev("confirm", <<"Install", cmd>>, 1)>>]}
          ELSE {[exc |-> IF r.exc # <<>> THEN "ClickException" ELSE "",
                 msg |-> r.exc,
                 trace |-> <<probe, Ev("confirm", <<"Install", cmd>>, 1)>> \o r.trace]
                : r \in install_command(install_cmds, p)})

(* cmd_install_command: the possible results [exc, msg, trace]; exc is "" on *)
(* return, else the class of the raised exception.                           *)
cmd_install_command(inter, cmd, install_cmds, p) ==
    LET probe == Ev("command_exits", <<cmd>>, IF command_exits(cmd, p) THEN 1 ELSE 0)
    IN
    IF cmd = "" THEN {[exc |-> "", msg |-> <<>>, trace |-> <<>>]}
    ELSE IF command_exits(cmd, p) THEN {[exc |-> "", msg |-> <<>>, trace |-> <<probe>>]}
    ELSE IF ~inter
    THEN {[exc |-> "ClickException", msg |-> <<"Command not found", cmd>>,
           trace |-> <<probe>>]}
    ELSE {[exc |-> "Abort", msg |-> <<>>,
           trace |-> <<probe, Ev("confirm", <<"Install", cmd>>, 0)>>]}
         \cup
         (IF Len(install_cmds) = 0
          THEN {[exc |-> "ClickException", msg |-> <<"No install_cmds">>,
                 trace |-> <<probe, Ev("confirm", <<"Install", cmd>>, 1)>>]}
          ELSE {[exc |-> IF r.exc # <<>> THEN "ClickException" ELSE "",
                 msg |-> r.exc,
                 trace |-> <<probe, Ev("confirm", <<"Install", cmd>>, 1)>> \o r.trace]
                : r \in install_command(install_cmds, p)})

(* What a run of install commands can do to PATH: a command that exited 0   *)
(* may have put `cmd` there.                                                *)
path_after(p, cmd, tr) ==
    IF cmd # "" /\ \E k \in 1..Len(tr) :
            tr[k].op = "os.system" /\ tr[k].arg # <<>> /\ tr[k].res = 0
    THEN {p, p \cup {cmd}}
    ELSE {p}

(* Dependency(d, None, None, None) for a bare string, from_dict otherwise *)
to_dependency(d) ==
    IF d.str
    THEN [cmd |-> d.cmd, install_cmds |-> <<>>, uninstall_cmds |-> <<>>, managers |-> <<>>]
    ELSE [cmd |-> d.cmd, install_cmds |-> d.install_cmds,
          uninstall_cmds |-> d.uninstall_cmds, managers |-> d.managers]

(* The installation branch with the package managers called only when  *)
(* dep.cmd is absent                                                   *)
handle_dep_install_if_absent(dep, inter, link, p) ==
    IF dep.install_cmds # <<>>
    THEN LET cmds == IF link THEN dep.install_cmds ELSE dep.uninstall_cmds
         IN IF cmds # <<>> THEN cmd_install_command(inter, dep.cmd, cmds, p)
            ELSE IF ~inter
            THEN {[exc |-> "ClickException", msg |-> <<"cant handle dependency", dep.cmd>>,
                   trace |-> <<>>]}
            ELSE {[exc |-> IF a = 1 THEN "" ELSE "Abort", msg |-> <<>>,
                   trace |-> <<Ev("confirm", <<"cant handle dependency", dep.cmd>>, a)>>]
                  : a \in {0, 1}}
    ELSE IF command_exits(dep.cmd, p)
    THEN {[exc |-> "", msg |-> <<>>, trace |-> <<>>]}
    ELSE {[exc |-> "", msg |-> <<>>,
           trace |-> <<Ev("handle_package_managers", <<dep.cmd>>, Len(dep.managers))>>
                     \o r.trace \o <<Ev("return", r.ret, 0)>>]
          : r \in handle_package_managers(dep.cmd,
                                          unify_manager_confs(dep.cmd, dep.managers),
                                          link, p)}

(* Lines 299-316 of _handle_dep: the installation branch.  The possible     *)
(* results [exc, msg, trace].  handle_package_managers returns its error as *)
(* a string and raises nothing, and its result is not looked at.            *)
handle_dep_install(dep, inter, link, p) ==
    IF dep.install_cmds # <<>>
    THEN LET cmds == IF link THEN dep.install_cmds ELSE dep.uninstall_cmds
         IN IF cmds # <<>> THEN cmd_install_command(inter, dep.cmd, cmds, p)
            ELSE IF ~inter
            THEN {[exc |-> "ClickException", msg |-> <<"cant handle dependency", dep.cmd>>,
                   trace |-> <<>>]}
            ELSE {[exc |-> IF a = 1 THEN "" ELSE "Abort", msg |-> <<>>,
                   trace |-> <<Ev("confirm", <<"cant handle dependency", dep.cmd>>, a)>>]
                  : a \in {0, 1}}
    ELSE {[exc |-> "", msg |-> <<>>,
           trace |-> <<Ev("handle_package_managers", <<dep.cmd>>, Len(dep.managers))>>
                     \o r.trace \o <<Ev("return", r.ret, 0)>>]
          : r \in handle_package_managers(dep.cmd,
                                          unify_manager_confs(dep.cmd, dep.managers),
                                          link, p)}

(* The probe of dep.cmd with a strict mode that goes on when cmd is absent *)
handle_dep_probe_lenient(dep, inter, link, p) ==
    IF ~link THEN {[exc |-> "", msg |-> <<>>, trace |-> <<>>]}
    ELSE IF command_exits(dep.cmd, p)
    THEN {[exc |-> "", msg |-> <<>>, trace |-> <<Ev("command_exits", <<dep.cmd>>, 1)>>]}
    ELSE IF ~inter
    THEN {[exc |-> "", msg |-> <<>>, trace |-> <<Ev("command_exits", <<dep.cmd>>, 0)>>]}
    ELSE {[exc |-> IF a = 1 THEN "" ELSE "Abort", msg |-> <<>>,
           trace |-> <<Ev("command_exits", <<dep.cmd>>, 0),
                       Ev("confirm", <<dep.cmd, "not found, continue">>, a)>>]
          : a \in {0, 1}}

(* Lines 317-323 of _handle_dep: the probe of dep.cmd after the installation *)
handle_dep_probe(dep, inter, link, p) ==
    IF ~link THEN {[exc |-> "", msg |-> <<>>, trace |-> <<>>]}
    ELSE IF command_exits(dep.cmd, p)
    THEN {[exc |-> "", msg |-> <<>>, trace |-> <<Ev("command_exits", <<dep.cmd>>, 1)>>]}
    ELSE IF ~inter
    THEN {[exc |-> "ClickException", msg |-> <<dep.cmd, "not found">>,
           trace |-> <<Ev("command_exits", <<dep.cmd>>, 0)>>]}
    ELSE {[exc |-> IF a = 1 THEN "" ELSE "Abort", msg |-> <<>>,
           trace |-> <<Ev("command_exits", <<dep.cmd>>, 0),
                       Ev("confirm", <<dep.cmd, "not found, continue">>, a)>>]
          : a \in {0, 1}}

(* LinkHandler._handle_dep: the possible results [exc, msg, trace, path] *)
handle_dep(d, inter, link, p) ==
    LET dep == to_dependency(d)
    IN UNION {
         IF r.exc # ""
         THEN {[exc |-> r.exc, msg |-> r.msg, trace |-> r.trace, path |-> p2]
               : p2 \in path_after(p, dep.cmd, r.trace)}
         ELSE UNION {{[exc |-> q.exc, msg |-> q.msg, trace |-> r.trace \o q.trace,
                       path |-> p2]
                      : q \in handle_dep_probe(dep, inter, link, p2)}
                     : p2 \in path_after(p, dep.cmd, r.trace)}
         : r \in handle_dep_install(dep, inter, link, p)}

----------------------------------------------------------------------------
(* The file system under the user's home.  A path is its sequence of       *)
(* components; the home directory <<>> always is a directory.              *)
NoNode == [kind |-> "none", target |-> <<>>]
DirNode == [kind |-> "dir", target |-> <<>>]
FileNode == [kind |-> "file", target |-> <<>>]
LinkNode(t) == [kind |-> "link", target |-> t]

Prefix(p, k) == SubSeq(p, 1, k)

(* Path.symlink_to: the exception the call raises, "" when it creates the  *)
(* link.  The kernel walks the parents first: a missing one is ENOENT, one *)
(* that is no directory is ENOTDIR; then an existing destination is EEXIST.*)
symlink_error(f, p) ==
    LET bad == {k \in 1..(Len(p) - 1) : f[Prefix(p, k)].kind # "dir"}
        first == CHOOSE k \in bad : \A j \in bad : k <= j
    IN IF bad # {}
       THEN IF f[Prefix(p, first)].kind = "none"
            THEN "FileNotFoundError" ELSE "NotADirectoryError"
       ELSE IF f[p].kind # "none" THEN "FileExistsError" ELSE ""

(* errno of the OSError behind the exception *)
errno(e) ==
    CASE e = "FileExistsError" -> 17
      [] e = "FileNotFoundError" -> 2
      [] e = "NotADirectoryError" -> 20
      [] OTHER -> 0

symlink_to(f, p, t) == [f EXCEPT ![p] = LinkNode(t)]

(* Path.unlink removes a file or a link; on a directory it raises *)
unlink_error(f, p) == IF f[p].kind = "dir" THEN "IsADirectoryError" ELSE ""

unlink(f, p) == [f EXCEPT ![p] = NoNode]

(* mkdir without parents=True, taken to make the one directory *)
mkdir_single(f, p) == [f EXCEPT ![p] = DirNode]

(* Path.mkdir(parents=True): the directory and every missing parent *)
mkdir_parents(f, p) ==
    [q \in DOMAIN f |->
        IF (\E k \in 1..Len(p) : q = Prefix(p, k)) /\ f[q].kind = "none"
        THEN DirNode ELSE f[q]]

(* Lines 136-144 of link(): the source name and the destination leaf of a  *)
(* `files` item, a bare string or a table with an optional rename.         *)
file_name(f) == f.name

file_rename(f) ==
    IF f.str THEN <<f.name>>
    ELSE IF f.rename # <<>> THEN f.rename
    ELSE <<f.name>>

link_path(location, f) == location \o file_rename(f)

(* entry_item.resolve(): the absolute path of the file in the entry directory *)
entry_item(f) == <<"entry", file_name(f)>>

(* link_file with error_msg and `continue` where strict mode finds the     *)
(* destination                                                             *)
link_file_continue(f, inter, location, spec, lnks) ==
    LET link == link_path(location, spec)
        item == entry_item(spec)
        err == symlink_error(f, link)
        try == Ev("symlink_to", link, errno(err))
        done(g, tr) == [exc |-> "", fs |-> g, links |-> Append(lnks, link),
                        trace |-> tr \o <<Ev("Restore", link, 0)>>]
        skip(tr) == [exc |-> "", fs |-> f, links |-> lnks, trace |-> tr]
        fatal(e, tr) == [exc |-> e, fs |-> f, links |-> lnks, trace |-> tr]
    IN
    IF err = "" THEN {done(symlink_to(f, link, item), <<try>>)}
    ELSE IF err = "FileExistsError"
    THEN IF ~inter
         THEN {skip(<<try, Ev("error_msg", <<"File exists">> \o link, 1)>>)}
         ELSE {skip(<<try, Ev("confirm", <<"Replace">> \o link, 0)>>)}
              \cup
              (IF unlink_error(f, link) # ""
               THEN {fatal(unlink_error(f, link),
                           <<try, Ev("confirm", <<"Replace">> \o link, 1)>>)}
               ELSE {done(symlink_to(unlink(f, link), link, item),
                          <<try, Ev("confirm", <<"Replace">> \o link, 1),
                            Ev("unlink", link, 0), Ev("symlink_to", link, 0)>>)})
    ELSE IF err = "FileNotFoundError"
    THEN LET parent == Prefix(link, Len(link) - 1)
         IN IF ~inter
            THEN {fatal("SystemExit",
                        <<try, Ev("error", <<"Directory not found">> \o parent, 1)>>)}
            ELSE {skip(<<try, Ev("confirm", <<"Create">> \o parent, 0)>>),
                  done(symlink_to(mkdir_parents(f, parent), link, item),
                       <<try, Ev("confirm", <<"Create">> \o parent, 1),
                         Ev("mkdir", parent, 0), Ev("symlink_to", link, 0)>>)}
    ELSE {fatal("SystemExit", <<try, Ev("error", <<"Not a directory">> \o link, 1)>>)}

(* Lines 146-174 of link(): one iteration of the loop over the files.  The *)
(* possible results [exc, fs, links, trace].  error() ends the process     *)
(* (SystemExit), so the statements after it do not run.                    *)
link_file(f, inter, location, spec, lnks) ==
    LET link == link_path(location, spec)
        item == entry_item(spec)
        err == symlink_error(f, link)
        try == Ev("symlink_to", link, errno(err))
        done(g, tr) == [exc |-> "", fs |-> g, links |-> Append(lnks, link),
                        trace |-> tr \o <<Ev("Restore", link, 0)>>]
        skip(tr) == [exc |-> "", fs |-> f, links |-> lnks, trace |-> tr]
        fatal(e, tr) == [exc |-> e, fs |-> f, links |-> lnks, trace |-> tr]
    IN
    IF err = "" THEN {done(symlink_to(f, link, item), <<try>>)}
    ELSE IF err = "FileExistsError"
    THEN IF ~inter
         THEN {fatal("SystemExit", <<try, Ev("error", <<"File exists">> \o link, 1)>>)}
         ELSE {skip(<<try, Ev("confirm", <<"Replace">> \o link, 0)>>)}
              \cup
              (IF unlink_error(f, link) # ""
               THEN {fatal(unlink_error(f, link),
                           <<try, Ev("confirm", <<"Replace">> \o link, 1)>>)}
               ELSE {done(symlink_to(unlink(f, link), link, item),
                          <<try, Ev("confirm", <<"Replace">> \o link, 1),
                            Ev("unlink", link, 0), Ev("symlink_to", link, 0)>>)})
    ELSE IF err = "FileNotFoundError"
    THEN LET parent == Prefix(link, Len(link) - 1)
         IN IF ~inter
            THEN {fatal("SystemExit",
                        <<try, Ev("error", <<"Directory not found">> \o parent, 1)>>)}
            ELSE {skip(<<try, Ev("confirm", <<"Create">> \o parent, 0)>>),
                  done(symlink_to(mkdir_parents(f, parent), link, item),
                       <<try, Ev("confirm", <<"Create">> \o parent, 1),
                         Ev("mkdir", parent, 0), Ev("symlink_to", link, 0)>>)}
    ELSE {fatal("SystemExit", <<try, Ev("error", <<"Not a directory">> \o link, 1)>>)}

(* Lines 123-132 of link(): an empty `files` is resolved from the entry     *)
(* directory.  The possible results [exc, filenames, trace].                *)
resolve_filenames(names, dir) ==
    IF names # <<>> THEN {[exc |-> "", filenames |-> names, trace |-> <<>>]}
    ELSE LET dir_items == dir \ {LINK_CONFIG_FILE_NAME}
         IN IF Cardinality(dir_items) > 0
            THEN {[exc |-> "SystemExit", filenames |-> names,
                   trace |-> <<Ev("error", <<"Multiple files found">>, 1)>>]}
            ELSE IF dir_items = {}
            THEN {[exc |-> "IndexError", filenames |-> names, trace |-> <<>>]}
            ELSE {[exc |-> "",
                   filenames |-> <<[str |-> TRUE, name |-> x, rename |-> <<>>]>>,
                   trace |-> <<>>] : x \in dir_items}

----------------------------------------------------------------------------
(* The inputs: configurations, PATH and file system the run starts from *)

Bare(m) == [str |-> TRUE, name |-> m, package |-> ""]
Conf(m, pkg) == [str |-> FALSE, name |-> m, package |-> pkg]

Dep(cmd, install_cmds, managers) ==
    [str |-> FALSE, cmd |-> cmd, install_cmds |-> install_cmds,
     uninstall_cmds |-> <<>>, managers |-> managers]

DepSet ==
    { Dep("fd", << <<"brew", "install", "fd">> >>, <<>>),
      Dep("bat", <<>>, <<Bare("brew"), Bare("apt"), Conf("pacman", "bat-extras"), Bare("yay")>>),
      Dep("jq", <<>>, <<Bare("apt")>>),
      [str |-> TRUE, cmd |-> "rg", install_cmds |-> <<>>, uninstall_cmds |-> <<>>,
       managers |-> <<>>] }

PathSet ==
    { {"sudo"},
      {"sudo", "brew"},
      {"sudo", "pacman", "yay", "brew"},
      {"sudo", "brew", "fd", "bat", "jq", "rg"} }

(* The install_cmds of an entry: none, a working one, blank strings only, *)
(* an unknown command only, and lists that mix these                     *)
EntrySet ==
    { [cmd |-> "", install_cmds |-> <<>>],
      [cmd |-> "nvim", install_cmds |-> << <<"brew", "install", "nvim">> >>],
      [cmd |-> "nvim", install_cmds |-> <<>>],
      [cmd |-> "nvim", install_cmds |-> << <<>>, <<>> >>],
      [cmd |-> "nvim", install_cmds |-> << <<"xxx">> >>],
      [cmd |-> "nvim", install_cmds |-> << <<>>, <<"brew", "install", "nvim">> >>],
      [cmd |-> "nvim", install_cmds |-> << <<"xxx">>, <<"brew", "install", "nvim">> >>],
      [cmd |-> "nvim", install_cmds |-> << <<"brew", "install", "nvim">>,
                                           <<"brew", "install", "neovim">> >>] }

Location == <<"loc">>

FileSpecSet ==
    { [str |-> TRUE, name |-> "a", rename |-> <<>>],
      [str |-> FALSE, name |-> "a", rename |-> <<>>],
      [str |-> FALSE, name |-> "a", rename |-> <<"b">>],
      [str |-> FALSE, name |-> "c", rename |-> <<"sub", "c">>] }

FsPaths == { <<"loc">>, <<"loc", "a">>, <<"loc", "b">>, <<"loc", "sub">>,
             <<"loc", "sub", "c">> }

(* The trees the run can find: nothing exists below a path that is no directory *)
FsSet ==
    { f \in [FsPaths -> {NoNode, DirNode, FileNode, LinkNode(<<"entry", "a">>),
                         LinkNode(<<"entry", "c">>), LinkNode(<<"other">>)}] :
        /\ f[<<"loc">>].kind \in {"none", "dir", "file"}
        /\ f[<<"loc", "sub">>].kind \in {"none", "dir", "file"}
        /\ f[<<"loc", "a">>] # LinkNode(<<"entry", "c">>)
        /\ f[<<"loc", "b">>] \in {NoNode, FileNode, LinkNode(<<"entry", "a">>)}
        /\ f[<<"loc", "sub", "c">>] \in {NoNode, LinkNode(<<"entry", "c">>)}
        /\ \A q \in FsPaths : \A k \in 1..(Len(q) - 1) :
              f[Prefix(q, k)].kind # "dir" => f[q] = NoNode }

FreshFs == [q \in FsPaths |-> IF q = <<"loc">> THEN DirNode ELSE NoNode]

AfterCmdSet == { <<"fc-cache">>, <<"xrdb", "-merge">> }

NoAfter == [present |-> FALSE, cmds |-> <<>>]
After(cmds) == [present |-> TRUE, cmds |-> cmds]

Config(e, files, deps, opt, after) ==
    [Entry |-> [cmd |-> e.cmd, install_cmds |-> e.install_cmds,
                location |-> Location, files |-> files],
     Deps |-> deps, OptionalDeps |-> opt, After |-> after]

EntryDirSet == { {LINK_CONFIG_FILE_NAME},
                 {LINK_CONFIG_FILE_NAME, "a"},
                 {LINK_CONFIG_FILE_NAME, "a", "c"} }

(* The runs that exercise the dependencies, the link loop or the post-link *)
(* action; each is [config, entry_dir, path, fs].                          *)
DepScenarios ==
    { [config |-> Config([cmd |-> "", install_cmds |-> <<>>],
                         <<[str |-> TRUE, name |-> "a", rename |-> <<>>]>>,
                         deps, opt, After(<<<<"fc-cache">>>>)),
       entry_dir |-> {LINK_CONFIG_FILE_NAME, "a", "c"}, path |-> p, fs |-> FreshFs]
      : p \in PathSet,
        deps \in SeqsUpTo(DepSet, MaxDeps),
        opt \in SeqsUpTo(DepSet, MaxDeps) }

EntryScenarios ==
    { [config |-> Config(e, <<[str |-> TRUE, name |-> "a", rename |-> <<>>]>>,
                         <<>>, <<>>, NoAfter),
       entry_dir |-> {LINK_CONFIG_FILE_NAME, "a", "c"}, path |-> p, fs |-> FreshFs]
      : e \in EntrySet, p \in {{"sudo"}, {"sudo", "brew"}, {"sudo", "brew", "nvim"}} }

LinkScenarios ==
    { [config |-> Config([cmd |-> "", install_cmds |-> <<>>], files, <<>>, <<>>, a),
       entry_dir |-> d, path |-> {"sudo", "fc-cache"}, fs |-> f]
      : files \in SeqsUpTo(FileSpecSet, MaxFiles), f \in FsSet,
        d \in EntryDirSet, a \in {NoAfter, After(<<<<"fc-cache">>>>)} }

AfterScenarios ==
    { [config |-> Config([cmd |-> "", install_cmds |-> <<>>],
                         <<[str |-> TRUE, name |-> "a", rename |-> <<>>]>>,
                         <<>>, <<>>, After(cmds)),
       entry_dir |-> {LINK_CONFIG_FILE_NAME, "a"}, path |-> p, fs |-> FreshFs]
      : cmds \in SeqsUpTo(AfterCmdSet, MaxCmds),
        p \in {{"sudo", "fc-cache"}, {"sudo", "fc-cache", "xrdb"}} }

(* One dependency that prefers brew alone, with brew present or not *)
ManagerScenarios ==
    { [config |-> Config([cmd |-> "", install_cmds |-> <<>>],
                         <<[str |-> TRUE, name |-> "a", rename |-> <<>>]>>,
                         deps, opt, NoAfter),
       entry_dir |-> {LINK_CONFIG_FILE_NAME, "a", "c"}, path |-> p, fs |-> FreshFs]
      : p \in {{"sudo"}, {"sudo", "brew"}, {"sudo", "pacman", "nvim"}},
        deps \in {<<>>, <<Dep("nvim", <<>>, <<Bare("brew")>>)>>},
        opt \in {<<>>, <<Dep("nvim", <<>>, <<Bare("brew")>>)>>} }

(* A configuration names a command once among its dependencies *)
DistinctCmds(deps) ==
    \A j, k \in 1..Len(deps) : deps[j].cmd = deps[k].cmd => j = k

DepRuns ==
    {s \in DepScenarios :
        /\ Len(s.config.Deps) + Len(s.config.OptionalDeps) <= MaxDeps
        /\ DistinctCmds(s.config.Deps \o s.config.OptionalDeps)}
    \cup EntryScenarios
    \cup {s \in ManagerScenarios : Len(s.config.Deps \o s.config.OptionalDeps) = 1}

LinkRuns ==
    {s \in LinkScenarios : s.config.Entry.files = <<>> \/ Cardinality(s.entry_dir) = 3}

AfterRuns == AfterScenarios

InitFrom(S) ==
    /\ interactive \in BOOLEAN
    /\ \E s \in S :
          /\ config = s.config
          /\ entry_dir = s.entry_dir
          /\ path = s.path
          /\ fs = s.fs
          /\ fs0 = s.fs
          /\ path0 = s.path
    /\ pc = "cmd_install_command"
    /\ idx = 1
    /\ filenames = <<>>
    /\ links = <<>>
    /\ step_num = 0
    /\ last_waitstatus = 0
    /\ exc = ""
    /\ exit_code = -1
    /\ trace = <<>>

Init == InitFrom(DepRuns \cup LinkRuns \cup AfterRuns)
InitDeps == InitFrom(DepRuns)
InitLink == InitFrom(LinkRuns)
InitAfter == InitFrom(AfterRuns)

----------------------------------------------------------------------------
(* The run ends: a return of link() or exit(n) give the status, click turns *)
(* a ClickException or an Abort into status 1, and so does the interpreter  *)
(* for any other exception.                                                 *)
Terminate(e, code) ==
    /\ pc' = "done"
    /\ exc' = e
    /\ exit_code' = code

Raise(e) == Terminate(e, 1)

(* The exception that leaves a call, as an event of the trace *)
raised(r) == IF r.exc # "" THEN <<Ev("raise", <<r.exc>> \o r.msg, 0)>> ELSE <<>>

(* link(), line 115: cmd_install_command for the entry's own command *)
EntryCommand ==
    /\ pc = "cmd_install_command"
    /\ \E r \in cmd_install_command(interactive, config.Entry.cmd,
                                    config.Entry.install_cmds, path) :
       \E p2 \in path_after(path, config.Entry.cmd, r.trace) :
          /\ trace' = trace \o r.trace \o raised(r)
          /\ path' = p2
          /\ IF r.exc # "" THEN Raise(r.exc)
             ELSE pc' = "handle_deps" /\ UNCHANGED <<exc, exit_code>>
    /\ UNCHANGED <<interactive, config, entry_dir, fs, fs0, path0, idx, filenames, links,
                   step_num, last_waitstatus>>

(* LinkHandler.step *)
step(title) == Ev("step", <<title>>, step_num + 1)

(* handle_deps with the try/except of handle_optional_deps around the call *)
HandleDepsCaught ==
    /\ pc = "handle_deps"
    /\ LET deps == config.Deps
       IN IF idx > Len(deps)
          THEN /\ pc' = "handle_optional_deps"
               /\ idx' = 1
               /\ UNCHANGED <<path, step_num, exc, exit_code, trace>>
          ELSE \E r \in handle_dep(deps[idx], interactive, LinkMode, path) :
                 /\ step_num' = IF idx = 1 THEN step_num + 1 ELSE step_num
                 /\ trace' = trace
                        \o (IF idx = 1 THEN <<step("Dependencies")>> ELSE <<>>)
                        \o <<Ev("_handle_dep", <<"Deps", deps[idx].cmd>>, idx)>>
                        \o r.trace \o raised(r)
                 /\ path' = r.path
                 /\ IF r.exc = "Abort" THEN Raise(r.exc) /\ UNCHANGED idx
                    ELSE idx' = idx + 1 /\ UNCHANGED <<pc, exc, exit_code>>
    /\ UNCHANGED <<interactive, config, entry_dir, fs, fs0, path0, filenames, links,
                   last_waitstatus>>

(* LinkHandler.handle_deps: the return (no dependency, or the loop is over) *)
(* or one iteration of the loop                                             *)
HandleDeps ==
    /\ pc = "handle_deps"
    /\ LET deps == config.Deps
       IN IF idx > Len(deps)
          THEN /\ pc' = "handle_optional_deps"
               /\ idx' = 1
               /\ UNCHANGED <<path, step_num, exc, exit_code, trace>>
          ELSE \E r \in handle_dep(deps[idx], interactive, LinkMode, path) :
                 /\ step_num' = IF idx = 1 THEN step_num + 1 ELSE step_num
                 /\ trace' = trace
                        \o (IF idx = 1 THEN <<step("Dependencies")>> ELSE <<>>)
                        \o <<Ev("_handle_dep", <<"Deps", deps[idx].cmd>>, idx)>>
                        \o r.trace \o raised(r)
                 /\ path' = r.path
                 /\ IF r.exc # "" THEN Raise(r.exc) /\ UNCHANGED idx
                    ELSE idx' = idx + 1 /\ UNCHANGED <<pc, exc, exit_code>>
    /\ UNCHANGED <<interactive, config, entry_dir, fs, fs0, path0, filenames, links,
                   last_waitstatus>>

(* handle_optional_deps without its try/except *)
HandleOptionalDepsUncaught ==
    /\ pc = "handle_optional_deps"
    /\ LET deps == config.OptionalDeps
       IN IF idx > Len(deps)
          THEN /\ pc' = "filenames"
               /\ idx' = 1
               /\ UNCHANGED <<path, step_num, exc, exit_code, trace>>
          ELSE \E r \in handle_dep(deps[idx], interactive, LinkMode, path) :
                 /\ step_num' = IF idx = 1 THEN step_num + 1 ELSE step_num
                 /\ trace' = trace
                        \o (IF idx = 1 THEN <<step("Optional dependencies")>> ELSE <<>>)
                        \o <<Ev("_handle_dep", <<"OptionalDeps", deps[idx].cmd>>, idx)>>
                        \o r.trace \o raised(r)
                 /\ path' = r.path
                 /\ IF r.exc # "" THEN Raise(r.exc) /\ UNCHANGED idx
                    ELSE idx' = idx + 1 /\ UNCHANGED <<pc, exc, exit_code>>
    /\ UNCHANGED <<interactive, config, entry_dir, fs, fs0, path0, filenames, links,
                   last_waitstatus>>

(* LinkHandler.handle_optional_deps: the return or one iteration of the loop *)
HandleOptionalDeps ==
    /\ pc = "handle_optional_deps"
    /\ LET deps == config.OptionalDeps
       IN IF idx > Len(deps)
          THEN /\ pc' = "filenames"
               /\ idx' = 1
               /\ UNCHANGED <<path, step_num, exc, exit_code, trace>>
          ELSE \E r \in handle_dep(deps[idx], interactive, LinkMode, path) :
                 /\ step_num' = IF idx = 1 THEN step_num + 1 ELSE step_num
                 /\ trace' = trace
                        \o (IF idx = 1 THEN <<step("Optional dependencies")>> ELSE <<>>)
                        \o <<Ev("_handle_dep", <<"OptionalDeps", deps[idx].cmd>>, idx)>>
                        \o r.trace \o raised(r)
                        \o (IF r.exc \notin {"", "Abort"}
                            THEN <<Ev("warn", r.msg, 0)>> ELSE <<>>)
                 /\ path' = r.path
                 /\ IF r.exc = "Abort" THEN Raise(r.exc) /\ UNCHANGED idx
                    ELSE idx' = idx + 1 /\ UNCHANGED <<pc, exc, exit_code>>
    /\ UNCHANGED <<interactive, config, entry_dir, fs, fs0, path0, filenames, links,
                   last_waitstatus>>

(* link(), lines 119-134: the file names, then the empty list of links *)
ResolveFilenames ==
    /\ pc = "filenames"
    /\ \E r \in resolve_filenames(config.Entry.files, entry_dir) :
          /\ trace' = trace \o r.trace
          /\ filenames' = r.filenames
          /\ IF r.exc # "" THEN Raise(r.exc)
             ELSE pc' = "links" /\ UNCHANGED <<exc, exit_code>>
    /\ idx' = 1
    /\ links' = <<>>
    /\ UNCHANGED <<interactive, config, entry_dir, path, fs, fs0, path0, step_num, last_waitstatus>>

(* link(), lines 135-174: the end of the loop over the files or one iteration *)
LinkFile ==
    /\ pc = "links"
    /\ IF idx > Len(filenames)
       THEN /\ pc' = "do_after_action"
            /\ UNCHANGED <<fs, idx, links, exc, exit_code, trace>>
       ELSE \E r \in link_file(fs, interactive, config.Entry.location,
                               filenames[idx], links) :
              /\ fs' = r.fs
              /\ links' = r.links
              /\ trace' = trace \o <<Ev("file", <<file_name(filenames[idx])>>, idx)>>
                                \o r.trace
              /\ IF r.exc # "" THEN Raise(r.exc) /\ UNCHANGED idx
                 ELSE idx' = idx + 1 /\ UNCHANGED <<pc, exc, exit_code>>
    /\ UNCHANGED <<interactive, config, entry_dir, path, fs0, path0, filenames, step_num,
                   last_waitstatus>>

(* do_after_action, lines 354-361: no action, or the prompt for the action *)
DoAfterAction ==
    /\ pc = "do_after_action"
    /\ IF ~config.After.present
       THEN Terminate("", 0) /\ UNCHANGED trace
       ELSE \E a \in {0, 1} :
              /\ trace' = Append(trace, Ev("confirm", <<"Do after action">>, a))
              /\ IF a = 0 THEN Terminate("", 0)
                 ELSE pc' = "after_cmds" /\ UNCHANGED <<exc, exit_code>>
    /\ idx' = 1
    /\ last_waitstatus' = 0
    /\ UNCHANGED <<interactive, config, entry_dir, path, fs, fs0, path0, filenames, links, step_num>>

(* One iteration of the loop of do_after_action (lines 362-369): the       *)
(* possible results [status, trace] for the last status `last`.            *)
after_cmd(cmd, k, last, p) ==
    {[status |-> last, trace |-> <<Ev("confirm", <<"Run">> \o cmd, 0)>>]}
    \cup
    {[status |-> s,
      trace |-> <<Ev("confirm", <<"Run">> \o cmd, 1), Ev("os.system", cmd, s)>>
                \o (IF s # 0 THEN <<Ev("error_msg", <<"Failed">>, 0)>> ELSE <<>>)]
     : s \in os_system(cmd, p)}

(* exit() with the wait status itself *)
after_exit_raw(last) == exit_status(last)

(* do_after_action, line 371: exit with the code of the last wait status *)
after_exit(last) == exit_status(waitstatus_to_exitcode(last))

(* do_after_action, lines 362-371: one command of the action, or the exit *)
AfterCmd ==
    /\ pc = "after_cmds"
    /\ LET cmds == config.After.cmds
       IN IF idx > Len(cmds)
          THEN /\ Terminate("SystemExit", after_exit(last_waitstatus))
               /\ UNCHANGED <<idx, last_waitstatus, trace>>
          ELSE \E r \in after_cmd(cmds[idx], idx, last_waitstatus, path) :
                 /\ last_waitstatus' = r.status
                 /\ trace' = trace \o r.trace
                 /\ idx' = idx + 1
                 /\ UNCHANGED <<pc, exc, exit_code>>
    /\ UNCHANGED <<interactive, config, entry_dir, path, fs, fs0, path0, filenames, links, step_num>>

Next ==
    \/ EntryCommand
    \/ HandleDeps
    \/ HandleOptionalDeps
    \/ ResolveFilenames
    \/ LinkFile
    \/ DoAfterAction
    \/ AfterCmd

Spec == Init /\ [][Next]_vars
SpecDeps == InitDeps /\ [][Next]_vars
SpecLink == InitLink /\ [][Next]_vars
SpecAfter == InitAfter /\ [][Next]_vars

----------------------------------------------------------------------------
(* Reading the trace *)

Marks(op) == {i \in 1..Len(trace) : trace[i].op = op}

(* The events of a dependency or of a file run from its mark up to the     *)
(* next step, dependency or file, or to the prompt of the post-link action *)
MarkOps == {"step", "_handle_dep", "file"}

AfterPrompt(e) == e.op = "confirm" /\ e.arg = <<"Do after action">>

SegEnd(i) ==
    LET later == {j \in (i + 1)..Len(trace) :
                     trace[j].op \in MarkOps \/ AfterPrompt(trace[j])}
    IN IF later = {} THEN Len(trace)
       ELSE (CHOOSE j \in later : \A k \in later : j <= k) - 1

Seg(i) == SubSeq(trace, i + 1, SegEnd(i))

DepMarks(list) == {i \in Marks("_handle_dep") : trace[i].arg[1] = list}

DepAt(i) ==
    to_dependency(IF trace[i].arg[1] = "Deps"
                  THEN config.Deps[trace[i].res]
                  ELSE config.OptionalDeps[trace[i].res])

(* The preferences of a dependency that name a supported manager found on PATH *)
Usable(dep) ==
    SelectSeq(dep.managers,
              LAMBDA m : m.name \in {"pacman", "yay", "brew"} /\ m.name \in path)

PackageOf(dep, m) == IF m.str \/ m.package = "" THEN dep.cmd ELSE m.package

InstallWarnings(seg) ==
    SelectSeq(seg, LAMBDA e : e.op = "warn" /\ e.arg # <<>> /\ e.arg[1] = "failed to install")

----------------------------------------------------------------------------
(* C1: handle_package_managers invokes handle_package on the usable        *)
(* candidates one at a time in the order of the preference list and stops  *)
(* at the first success: every earlier invocation failed and produced a    *)
(* warning, no later candidate is invoked, and the result is success; when *)
(* every candidate fails all of them were invoked and the result is an     *)
(* error.                                                                  *)
C1_FirstSuccessWins ==
    \A i \in Marks("_handle_dep") :
        LET dep == DepAt(i)
            seg == Seg(i)
            calls == SelectOps(seg, "handle_package")
            usable == Usable(dep)
            rets == SelectOps(seg, "return")
            n == Len(calls)
        IN (dep.install_cmds = <<>> /\ usable # <<>>) =>
             /\ n >= 1 /\ n <= Len(usable)
             /\ \A k \in 1..n : calls[k].arg = <<usable[k].name, PackageOf(dep, usable[k])>>
             /\ \A k \in 1..(n - 1) : calls[k].res # 0
             /\ calls[n].res # 0 => n = Len(usable)
             /\ Len(InstallWarnings(seg)) = Cardinality({k \in 1..n : calls[k].res # 0})
             /\ Len(rets) = 1
             /\ (rets[1].arg = <<>>) <=> (calls[n].res = 0)

(* Three usable candidates with outcomes fail, succeed, (fail): two invoked *)
C1_Witness ==
    \E i \in Marks("_handle_dep") :
        LET calls == SelectOps(Seg(i), "handle_package")
        IN /\ Len(Usable(DepAt(i))) = 3
           /\ Len(calls) = 2
           /\ calls[1].res # 0
           /\ calls[2].res = 0

(* The dependencies with neither managers nor install_cmds *)
Unconfigured(i) == DepAt(i).install_cmds = <<>> /\ DepAt(i).managers = <<>>

PresentManagers == {m \in {"pacman", "yay", "brew"} : m \in path}

(* C2 as claimed: a dependency with neither managers nor install_cmds      *)
(* fails to resolve and no package manager or shell command is invoked.    *)
C2_Original ==
    \A i \in Marks("_handle_dep") :
        Unconfigured(i) =>
            /\ SelectOps(Seg(i), "raise") # <<>>
            /\ SelectOps(Seg(i), "handle_package") = <<>>
            /\ SelectOps(Seg(i), "os.system") = <<>>

(* C2, amended: a dependency with neither managers nor install_cmds is     *)
(* handed to handle_package_managers with an empty preference list, which  *)
(* invokes the supported managers found on PATH, each once at most and     *)
(* with cmd as the package, until one succeeds; a manager is invoked       *)
(* exactly when one is present; no other shell command runs; and the only  *)
(* failure is the probe of cmd that follows.                               *)
C2_Amended ==
    \A i \in Marks("_handle_dep") :
        LET dep == DepAt(i)
            seg == Seg(i)
            calls == SelectOps(seg, "handle_package")
            raises == SelectOps(seg, "raise")
            n == Len(calls)
        IN Unconfigured(i) =>
             /\ seg # <<>> /\ seg[1] = Ev("handle_package_managers", <<dep.cmd>>, 0)
             /\ (n >= 1) <=> (PresentManagers # {})
             /\ \A k \in 1..n : calls[k].arg[1] \in PresentManagers /\ calls[k].arg[2] = dep.cmd
             /\ \A j, k \in 1..n : calls[j].arg[1] = calls[k].arg[1] => j = k
             /\ \A k \in 1..(n - 1) : calls[k].res # 0
             /\ (n >= 1 /\ calls[n].res # 0) => n = Cardinality(PresentManagers)
             /\ Len(SelectOps(seg, "os.system")) = n
             /\ \A k \in 1..Len(raises) :
                   /\ raises[k].arg \in {<<"ClickException", dep.cmd, "not found">>, <<"Abort">>}
                   /\ Ev("command_exits", <<dep.cmd>>, 0) \in {seg[j] : j \in 1..Len(seg)}

(* Such a dependency is installed by a manager found on PATH *)
C2_Witness ==
    \E i \in Marks("_handle_dep") :
        /\ Unconfigured(i)
        /\ \E j \in 1..Len(Seg(i)) : Seg(i)[j].op = "handle_package" /\ Seg(i)[j].res = 0

(* C3: when a required dependency raises, the run ends there with status 1: *)
(* no later required dependency, no optional dependency, no link and no     *)
(* post-link action runs, and the file system is as the run found it.       *)
C3_RequiredFailureStops ==
    \A i \in DepMarks("Deps") :
        SelectOps(Seg(i), "raise") # <<>> =>
            /\ SegEnd(i) = Len(trace)
            /\ trace[Len(trace)].op = "raise"
            /\ pc = "done" /\ exit_code = 1 /\ exc \in {"ClickException", "Abort"}
            /\ \A j \in Marks("_handle_dep") : j <= i
            /\ Cardinality(DepMarks("Deps")) = trace[i].res
            /\ DepMarks("OptionalDeps") = {}
            /\ Marks("file") = {} /\ Marks("symlink_to") = {}
            /\ \A j \in Marks("confirm") : trace[j].arg # <<"Do after action">>
            /\ links = <<>> /\ fs = fs0

(* A required dependency fails while another one is still to come *)
C3_Witness ==
    \E i \in DepMarks("Deps") :
        /\ SelectOps(Seg(i), "raise") # <<>>
        /\ trace[i].res < Len(config.Deps)

(* C4: a failure of an optional dependency other than an abort is caught   *)
(* and warned about, and the run goes on with the next optional dependency *)
(* or, after the last one, with the link loop; an abort ends the run there:*)
(* no later optional dependency, no link, no post-link action.             *)
C4_OptionalFailurePolicy ==
    \A i \in DepMarks("OptionalDeps") :
        LET seg == Seg(i)
            raises == SelectOps(seg, "raise")
        IN raises # <<>> =>
             IF raises[1].arg[1] = "Abort"
             THEN /\ SegEnd(i) = Len(trace)
                  /\ trace[Len(trace)].op = "raise"
                  /\ pc = "done" /\ exit_code = 1 /\ exc = "Abort"
                  /\ Marks("file") = {} /\ Marks("symlink_to") = {}
                  /\ \A j \in Marks("confirm") : trace[j].arg # <<"Do after action">>
                  /\ links = <<>> /\ fs = fs0
             ELSE /\ seg[Len(seg)] = Ev("warn", Tail(raises[1].arg), 0)
                  /\ exc # "ClickException"
                  /\ SegEnd(i) = Len(trace) => exit_code = -1
                  /\ SegEnd(i) < Len(trace) =>
                        LET e == trace[SegEnd(i) + 1]
                        IN IF trace[i].res < Len(config.OptionalDeps)
                           THEN e.op = "_handle_dep"
                                /\ e.arg[1] = "OptionalDeps"
                                /\ e.res = trace[i].res + 1
                           ELSE e.op = "file"

(* An optional dependency fails and a link is created afterwards *)
C4_Witness ==
    \E i \in DepMarks("OptionalDeps") :
        /\ \E j \in 1..Len(Seg(i)) :
              Seg(i)[j].op = "raise" /\ Seg(i)[j].arg[1] = "ClickException"
        /\ \E j \in Marks("symlink_to") : j > i /\ trace[j].res = 0

----------------------------------------------------------------------------
(* The link loop *)

FileAt(i) == filenames[trace[i].res]

NonConfigItems == entry_dir \ {LINK_CONFIG_FILE_NAME}

PastFilenames == pc \notin {"cmd_install_command", "handle_deps",
                            "handle_optional_deps", "filenames"}

(* C5 as claimed: an empty `files` with one file beside the config file is *)
(* resolved to that file, linked under its own name; with two or more the  *)
(* run fails and creates no symlink.                                       *)
C5_Original ==
    (config.Entry.files = <<>> /\ PastFilenames) =>
        /\ Cardinality(NonConfigItems) = 1 =>
              /\ \E x \in NonConfigItems :
                    /\ filenames = <<[str |-> TRUE, name |-> x, rename |-> <<>>]>>
                    /\ \A i \in Marks("symlink_to") : trace[i].arg = Location \o <<x>>
              /\ \A i \in Marks("error") : trace[i].arg # <<"Multiple files found">>
        /\ Cardinality(NonConfigItems) >= 2 =>
              /\ pc = "done" /\ exit_code = 1
              /\ Marks("symlink_to") = {} /\ fs = fs0

(* Every destination of the entry is the link an earlier run made *)
AlreadyLinked ==
    /\ filenames # <<>>
    /\ \A k \in 1..Len(filenames) :
          fs0[link_path(Location, filenames[k])] = LinkNode(entry_item(filenames[k]))

(* C6: in strict mode a run over an entry whose destinations are all the   *)
(* links of an earlier run ends at the first file with "File exists" and   *)
(* status 1, and the file system stays as it was: no link is removed or    *)
(* changed.                                                                *)
C6_RerunStrict ==
    (~interactive /\ AlreadyLinked) =>
        /\ fs = fs0
        /\ Marks("unlink") = {}
        /\ Marks("file") # {} =>
              /\ Cardinality(Marks("file")) = 1
              /\ trace[Len(trace)] =
                    Ev("error", <<"File exists">> \o link_path(Location, filenames[1]), 1)
              /\ pc = "done" /\ exit_code = 1 /\ exc = "SystemExit"
              /\ links = <<>>

(* A strict run over two links of an earlier run has ended *)
C6_Witness ==
    /\ ~interactive /\ AlreadyLinked /\ Len(filenames) = 2
    /\ fs0[<<"loc", "a">>].kind = "link" /\ fs0[<<"loc", "b">>].kind = "link"
    /\ pc = "done" /\ Marks("file") # {}

(* The step of the link loop for the file at idx *)
AtFile == pc = "links" /\ idx <= Len(filenames)

NewEvents == SubSeq(trace', Len(trace) + 1, Len(trace'))

(* C7 as claimed: in interactive mode with the destination present, a      *)
(* declined replace prompt leaves the file system and the links of the run *)
(* as they were and the loop goes on; an accepted one leaves a symlink to  *)
(* the entry's file in place of the destination.                           *)
C7_Original ==
    [][ (AtFile /\ interactive
         /\ fs[link_path(Location, filenames[idx])].kind # "none") =>
          LET link == link_path(Location, filenames[idx])
              answers == SelectSeq(NewEvents,
                                   LAMBDA e : e.op = "confirm" /\ e.arg = <<"Replace">> \o link)
          IN /\ Len(answers) = 1
             /\ pc' = "links" /\ idx' = idx + 1 /\ exit_code' = -1
             /\ IF answers[1].res = 0
                THEN fs' = fs /\ links' = links
                ELSE /\ fs' = [fs EXCEPT ![link] = LinkNode(entry_item(filenames[idx]))]
                     /\ links' = Append(links, link) ]_vars

(* No parent of the destination is a file and its directory is missing *)
MissingParent(f, link) ==
    /\ Len(link) > 1
    /\ f[Prefix(link, Len(link) - 1)].kind = "none"
    /\ \A k \in 1..(Len(link) - 1) : f[Prefix(link, k)].kind \in {"none", "dir"}

(* C8: in interactive mode, with the directory of the destination missing, *)
(* the create prompt is asked; accepted, the directory and its missing     *)
(* parents are made and the destination becomes a symlink to the entry's   *)
(* file; declined, nothing is created and the loop goes on.                *)
C8_CreateParent ==
    [][ (AtFile /\ interactive /\ MissingParent(fs, link_path(Location, filenames[idx]))) =>
          LET link == link_path(Location, filenames[idx])
              parent == Prefix(link, Len(link) - 1)
              answers == SelectSeq(NewEvents,
                                   LAMBDA e : e.op = "confirm" /\ e.arg = <<"Create">> \o parent)
          IN /\ Len(answers) = 1
             /\ pc' = "links" /\ idx' = idx + 1 /\ exit_code' = -1
             /\ IF answers[1].res = 0
                THEN fs' = fs /\ links' = links
                ELSE /\ fs' = [q \in DOMAIN fs |->
                                 IF q = link THEN LinkNode(entry_item(filenames[idx]))
                                 ELSE IF \E k \in 1..Len(parent) : q = Prefix(parent, k)
                                      THEN DirNode
                                      ELSE fs[q]]
                     /\ links' = Append(links, link) ]_vars

(* The location and a directory below it were missing and have been made *)
C8_Witness ==
    /\ interactive
    /\ fs0[<<"loc">>].kind = "none"
    /\ fs[<<"loc">>].kind = "dir" /\ fs[<<"loc", "sub">>].kind = "dir"
    /\ fs[<<"loc", "sub", "c">>] = LinkNode(<<"entry", "c">>)
    /\ \E i \in Marks("confirm") : trace[i] = Ev("confirm", <<"Create", "loc", "sub">>, 1)

(* C9: a failed symlink_to ends the run at that file with error() and      *)
(* status 1 in strict mode whatever the conflict, and in interactive mode  *)
(* when the parent is not a directory, then without a prompt; no later     *)
(* file and no post-link action follows.  In interactive mode the other    *)
(* two conflicts lead to a prompt, never to error(), and a declined prompt *)
(* leaves the run going.                                                   *)
C9_ConflictFatality ==
    \A i \in Marks("file") :
        LET seg == Seg(i)
            e == seg[1].res
        IN /\ seg # <<>> /\ seg[1].op = "symlink_to"
           /\ (e # 0 /\ (~interactive \/ e = 20)) =>
                 /\ Len(seg) = 2 /\ seg[2].op = "error"
                 /\ SegEnd(i) = Len(trace)
                 /\ pc = "done" /\ exit_code = 1 /\ exc = "SystemExit"
           /\ (e \in {17, 2} /\ interactive) =>
                 /\ Len(seg) >= 2 /\ seg[2].op = "confirm"
                 /\ \A k \in 1..Len(seg) : seg[k].op # "error"
                 /\ (SegEnd(i) = Len(trace) /\ seg[2].res = 0) =>
                       exc = "" /\ exit_code \in {-1, 0}

(* In interactive mode a parent that is no directory has ended the run *)
C9_Witness ==
    /\ interactive /\ pc = "done" /\ exit_code = 1
    /\ \E i \in Marks("symlink_to") : trace[i].res = 20

----------------------------------------------------------------------------
(* The post-link action *)

AcceptedAction == {j \in 1..Len(trace) : AfterPrompt(trace[j]) /\ trace[j].res = 1}

(* C10: once the action is accepted, its commands are prompted for in      *)
(* declaration order, the accepted ones are executed, a non-zero status    *)
(* stops nothing, and the process exits with the exit status of the last   *)
(* executed command, 0 when none was executed.                             *)
C10_AfterExitStatus ==
    \A j \in AcceptedAction :
        LET cmds == config.After.cmds
            rest == SubSeq(trace, j + 1, Len(trace))
            runs == SelectOps(rest, "confirm")
            accepted == SelectSeq(runs, LAMBDA e : e.res = 1)
            execs == SelectOps(rest, "os.system")
        IN /\ Len(runs) <= Len(cmds)
           /\ \A k \in 1..Len(runs) : runs[k].arg = <<"Run">> \o cmds[k]
           /\ Len(execs) = Len(accepted)
           /\ \A k \in 1..Len(execs) : <<"Run">> \o execs[k].arg = accepted[k].arg
           /\ pc # "done" => exit_code = -1 /\ Len(runs) < Len(cmds) + 1
           /\ pc = "done" =>
                 /\ Len(runs) = Len(cmds)
                 /\ exit_code = IF execs = <<>> THEN 0
                                ELSE execs[Len(execs)].res \div 256

(* The first command ran and failed, the second was declined: status 1 *)
C10_Witness ==
    \E j \in AcceptedAction :
        LET rest == SubSeq(trace, j + 1, Len(trace))
            runs == SelectOps(rest, "confirm")
            execs == SelectOps(rest, "os.system")
        IN /\ Len(runs) = 2 /\ runs[1].res = 1 /\ runs[2].res = 0
           /\ Len(execs) = 1 /\ execs[1].res = 256
           /\ pc = "done" /\ exit_code = 1

----------------------------------------------------------------------------
(* The result of handle_package_managers within the events of a dependency: *)
(* the message it returned, <<>> when it returned "" or was not called      *)
ManagerResult(seg) ==
    LET rets == SelectOps(seg, "return")
    IN IF rets = <<>> THEN <<>> ELSE rets[1].arg

ManagerFailures ==
    { <<"no supported package manager found">>,
      <<"no installed package manager found">>,
      <<"failed">> }

(* C11 as claimed: in strict mode, when handle_package_managers fails for  *)
(* a required dependency (no supported manager, no installed manager, or   *)
(* every candidate failing), the run ends there with status 1 and no file  *)
(* is linked, whatever the probe of cmd that follows finds.                *)
C11_Original ==
    \A i \in DepMarks("Deps") :
        (~interactive /\ ManagerResult(Seg(i)) \in ManagerFailures) =>
            /\ SelectOps(Seg(i), "raise") # <<>>
            /\ pc = "done" /\ exit_code = 1
            /\ Marks("file") = {}

(* The names of the preferences of a dependency, as configured *)
PreferredNames(dep) == {dep.managers[k].name : k \in 1..Len(dep.managers)}

SupportedNames == {"pacman", "yay", "brew"}

(* C12: for a dependency with a non-empty preference list and no           *)
(* install_cmds, handle_package_managers invokes no manager outside        *)
(* pacman, yay, brew and none that the list does not name; when the list   *)
(* names no supported manager it returns "no supported package manager     *)
(* found"; when it names some but none of them is on PATH it returns "no   *)
(* installed package manager found"; and in both cases no manager and no   *)
(* shell command is invoked.                                               *)
C12_PreferenceFiltering ==
    \A i \in Marks("_handle_dep") :
        LET dep == DepAt(i)
            seg == Seg(i)
            calls == SelectOps(seg, "handle_package")
            named == PreferredNames(dep) \cap SupportedNames
        IN (dep.install_cmds = <<>> /\ dep.managers # <<>>) =>
             /\ \A k \in 1..Len(calls) : calls[k].arg[1] \in named
             /\ \A k \in 1..Len(seg) :
                   seg[k].op = "warn" => seg[k].arg[1] # "unknown package manager"
             /\ named = {} =>
                   /\ ManagerResult(seg) = <<"no supported package manager found">>
                   /\ calls = <<>> /\ SelectOps(seg, "os.system") = <<>>
             /\ (named # {} /\ named \cap path = {}) =>
                   /\ ManagerResult(seg) = <<"no installed package manager found">>
                   /\ calls = <<>> /\ SelectOps(seg, "os.system") = <<>>
             /\ (named \cap path # {}) =>
                   ManagerResult(seg) \in {<<>>, <<"failed">>}

(* managers = [brew] with brew absent while another supported manager is *)
(* on PATH                                                               *)
C12_Witness ==
    \E i \in Marks("_handle_dep") :
        /\ DepAt(i).managers = <<Bare("brew")>>
        /\ "brew" \notin path /\ "pacman" \in path
        /\ ManagerResult(Seg(i)) = <<"no installed package manager found">>
        /\ SelectOps(Seg(i), "os.system") = <<>>

(* The events of the entry's own command check: those before the first step *)
EntrySeg == SubSeq(trace, 1, SegEnd(0))

(* The events of a probe command that cmd_install_command leaves alone *)
Quiet(seg) ==
    /\ SelectOps(seg, "confirm") = <<>>
    /\ SelectOps(seg, "os.system") = <<>>

(* C13: cmd_install_command, for the entry's command and for a dependency  *)
(* with install_cmds.  When the command is empty or was on PATH it returns *)
(* without a prompt and without running a command; when it is non-empty    *)
(* and absent in strict mode it raises ClickException "Command not found", *)
(* whatever install_cmds holds, again without a prompt or a command, and   *)
(* the run ends with status 1.  (A configuration names a command once, so  *)
(* what the call finds on PATH is what the run found there.)               *)
C13_EnsureCommand ==
    /\ pc # "cmd_install_command" =>
         LET cmd == config.Entry.cmd
             seg == EntrySeg
         IN /\ (cmd = "" \/ cmd \in path0) =>
                  /\ Quiet(seg) /\ SelectOps(seg, "raise") = <<>>
                  /\ Len(seg) = (IF cmd = "" THEN 0 ELSE 1)
            /\ (cmd # "" /\ cmd \notin path0 /\ ~interactive) =>
                  /\ Quiet(seg)
                  /\ seg = <<Ev("command_exits", <<cmd>>, 0),
                             Ev("raise", <<"ClickException", "Command not found", cmd>>, 0)>>
                  /\ seg = trace /\ pc = "done" /\ exit_code = 1
    /\ \A i \in Marks("_handle_dep") :
         LET dep == DepAt(i)
             seg == Seg(i)
             raises == SelectOps(seg, "raise")
         IN dep.install_cmds # <<>> =>
              /\ dep.cmd \in path0 => Quiet(seg) /\ raises = <<>>
              /\ (dep.cmd \notin path0 /\ ~interactive) =>
                    /\ Quiet(seg)
                    /\ raises = <<Ev("raise", <<"ClickException", "Command not found",
                                                dep.cmd>>, 0)>>

(* Strict mode, the command absent and an empty install_cmds list *)
C13_Witness ==
    /\ ~interactive
    /\ config.Entry.cmd = "nvim" /\ config.Entry.install_cmds = <<>>
    /\ "nvim" \notin path0
    /\ pc = "done" /\ exc = "ClickException"

(* A list of commands without a valid one: each is blank or starts with a  *)
(* word that is not on PATH                                                *)
NoValid(commands, p) ==
    \A k \in 1..Len(commands) : commands[k] = <<>> \/ commands[k][1] \notin p

(* The entry's command was absent and the user accepted to install it *)
EntryInstallAccepted ==
    /\ pc # "cmd_install_command"
    /\ Len(EntrySeg) >= 2
    /\ EntrySeg[2] = Ev("confirm", <<"Install", config.Entry.cmd>>, 1)

(* C14: install_command on a list without a valid command (the empty list, *)
(* blank strings, unknown commands) raises "no valid command" and runs no  *)
(* command: so it is for the entry's install_cmds on the PATH of the run,  *)
(* and so it went whenever the run called it for the entry (the exception  *)
(* reaches the user as a ClickException and the run ends with status 1).   *)
C14_NoValidCommand ==
    LET cmds == config.Entry.install_cmds
    IN NoValid(cmds, path0) =>
         /\ \A r \in install_command(cmds, path0) :
               r.exc = <<"no valid command">> /\ r.trace = <<>>
         /\ (EntryInstallAccepted /\ cmds # <<>>) =>
               /\ SelectOps(trace, "os.system") = <<>>
               /\ Len(trace) = 3
               /\ trace[3] = Ev("raise", <<"ClickException", "no valid command">>, 0)
               /\ pc = "done" /\ exit_code = 1

(* The run called install_command with blank strings only *)
C14_Witness ==
    /\ EntryInstallAccepted
    /\ config.Entry.install_cmds = << <<>>, <<>> >>
    /\ pc = "done" /\ exc = "ClickException"

(* The dependencies of the configuration, required then optional *)
AllDeps ==
    LET ds == config.Deps \o config.OptionalDeps
    IN [k \in 1..Len(ds) |-> to_dependency(ds[k])]

----------------------------------------------------------------------------
(* The strict run ended at a destination that exists *)
StrictExistsFailure ==
    /\ ~interactive /\ pc = "done"
    /\ trace # <<>>
    /\ trace[Len(trace)].op = "error"
    /\ trace[Len(trace)].arg[1] = "File exists"

(* C16 as claimed: when a strict run fails at a destination that exists,   *)
(* it ends with status 1 and the links it created before are removed       *)
(* again, while what existed before the run and the files not yet          *)
(* attempted are left alone: the file system is as the run found it.       *)
C16_Original ==
    StrictExistsFailure => exit_code = 1 /\ fs = fs0

----------------------------------------------------------------------------
(* The commands of a list that are not blank and start with a word on PATH *)
ValidOf(commands, p) ==
    SelectSeq(commands, LAMBDA c : c # <<>> /\ c[1] \in p)

(* C17 as claimed: when the run calls install_command for the entry with a *)
(* list that has a valid command, the commands it runs are valid ones, in  *)
(* the order of the list; each but the last one run exited non-zero; after *)
(* a last one that exited non-zero no valid command is left; and it raises *)
(* "install failed" exactly when the last one run exited non-zero.         *)
C17_Original ==
    LET cmds == config.Entry.install_cmds
        valid == ValidOf(cmds, path0)
        sys == SelectOps(EntrySeg, "os.system")
        n == Len(sys)
        raises == SelectOps(EntrySeg, "raise")
    IN (EntryInstallAccepted /\ valid # <<>>) =>
         /\ n >= 1 /\ n <= Len(valid)
         /\ \A k \in 1..n : sys[k].arg = valid[k]
         /\ \A k \in 1..(n - 1) : sys[k].res # 0
         /\ sys[n].res # 0 => n = Len(valid)
         /\ sys[n].res # 0 <=> raises = <<Ev("raise", <<"ClickException", "install failed">>, 0)>>

----------------------------------------------------------------------------
(* The probes of dep.cmd that _handle_dep itself makes within the events   *)
(* of dependency i: on the direct-command path the first command_exits is  *)
(* the one of cmd_install_command.                                         *)
ReProbes(i) ==
    LET seg == Seg(i)
        first == IF DepAt(i).install_cmds # <<>> THEN 2 ELSE 1
    IN {k \in first..Len(seg) : seg[k].op = "command_exits"}

InstallOps == {"os.system", "handle_package", "handle_package_managers", "return"}

LinkEngineStarted ==
    Marks("file") # {} \/ pc \in {"filenames", "links", "do_after_action", "after_cmds"}

(* C18: _handle_dep probes dep.cmd once after the installation, on the     *)
(* direct-command path and on the package-manager path, whenever the       *)
(* installation raised nothing.  The probe finds cmd exactly when it is on *)
(* PATH; a probe that finds it ends the handling of the dependency.  When  *)
(* it does not find it, strict mode raises ClickException "<cmd> not       *)
(* found", which for a required dependency ends the run with status 1, and *)
(* interactive mode asks whether to continue: an accepted prompt ends the  *)
(* handling of the dependency, a declined one raises Abort and ends the    *)
(* whole run with status 1.  Hence in strict mode the link loop is reached *)
(* only after every required dependency was probed and found present.      *)
C18_ReProbe ==
    /\ \A i \in Marks("_handle_dep") :
         LET dep == DepAt(i)
             seg == Seg(i)
             n == Len(seg)
             required == trace[i].arg[1] = "Deps"
             probes == ReProbes(i)
         IN /\ Cardinality(probes) <= 1
            /\ SelectOps(seg, "raise") = <<>> => probes # {}
            /\ \A k \in probes :
                  /\ seg[k].arg = <<dep.cmd>>
                  /\ \A j \in 1..n : seg[j].op \in InstallOps => j < k
                  /\ seg[k].res = 1 <=> dep.cmd \in path
                  /\ seg[k].res = 1 => k = n
                  /\ (seg[k].res = 0 /\ ~interactive) =>
                        /\ n > k
                        /\ seg[k + 1] = Ev("raise", <<"ClickException", dep.cmd, "not found">>, 0)
                        /\ required => /\ k + 1 = n /\ SegEnd(i) = Len(trace)
                                       /\ pc = "done" /\ exit_code = 1
                  /\ (seg[k].res = 0 /\ interactive) =>
                        /\ n > k
                        /\ seg[k + 1].op = "confirm"
                        /\ seg[k + 1].arg = <<dep.cmd, "not found, continue">>
                        /\ seg[k + 1].res = 1 => k + 1 = n
                        /\ seg[k + 1].res = 0 =>
                              /\ k + 2 = n /\ seg[n] = Ev("raise", <<"Abort">>, 0)
                              /\ SegEnd(i) = Len(trace)
                              /\ pc = "done" /\ exit_code = 1
    /\ (~interactive /\ LinkEngineStarted) =>
         /\ Cardinality(DepMarks("Deps")) = Len(config.Deps)
         /\ \A i \in DepMarks("Deps") :
               LET seg == Seg(i)
               IN /\ seg # <<>>
                  /\ seg[Len(seg)] = Ev("command_exits", <<DepAt(i).cmd>>, 1)

(* A required dependency whose install command ran, whose cmd the probe   *)
(* still did not find, and whose prompt to continue was declined          *)
C18_Witness ==
    \E i \in DepMarks("Deps") :
        /\ DepAt(i).install_cmds # <<>>
        /\ SelectOps(Seg(i), "os.system") # <<>>
        /\ \E k \in ReProbes(i) :
              /\ Seg(i)[k].res = 0
              /\ Seg(i)[k + 1].op = "confirm" /\ Seg(i)[k + 1].res = 0
        /\ pc = "done" /\ exc = "Abort"

----------------------------------------------------------------------------
(* The prompts of do_after_action: for the action and for each command *)
ActionPrompt(e) ==
    e.op = "confirm" /\ (AfterPrompt(e) \/ (e.arg # <<>> /\ e.arg[1] = "Run"))

(* C19: a prompt other than those of the post-link action is issued only   *)
(* in interactive mode, so a strict run issues none during the entry's     *)
(* command check, the dependencies and the link loop; the prompts of the   *)
(* action come after all of these and are issued in either mode: a run     *)
(* with an action that got through the link loop has asked for it.         *)
C19_StrictNeverPrompts ==
    /\ \A j \in Marks("confirm") :
          \/ interactive
          \/ /\ ActionPrompt(trace[j])
             /\ \A k \in j..Len(trace) : trace[k].op \notin MarkOps
    /\ (config.After.present /\ (pc = "after_cmds" \/ (pc = "done" /\ exc = ""))) =>
          \E j \in Marks("confirm") : AfterPrompt(trace[j])

(* A strict run that handled a dependency, linked a file and then asked *)
(* for the action and for its command                                   *)
C19_Witness ==
    /\ ~interactive
    /\ Marks("_handle_dep") # {} /\ Marks("symlink_to") # {}
    /\ \E j \in Marks("confirm") : trace[j].arg = <<"Run", "fc-cache">>

----------------------------------------------------------------------------
(* The managers handle_package_managers can use for a dependency: the    *)
(* supported ones on PATH, among those the dependency names if it names  *)
(* any                                                                   *)
UsableNames(dep) ==
    IF dep.managers = <<>> THEN SupportedNames \cap path0
    ELSE PreferredNames(dep) \cap SupportedNames \cap path0

(* C20: for a dependency without install_cmds, _handle_dep starts with the *)
(* call of handle_package_managers and probes dep.cmd only after that call *)
(* has returned; whenever a usable manager is on PATH the call runs an     *)
(* install command, in strict and in interactive mode, also when dep.cmd   *)
(* was on PATH before the run.  For a dependency with install_cmds whose   *)
(* cmd was on PATH no command is run.                                      *)
C20_ManagersBeforeProbe ==
    \A i \in Marks("_handle_dep") :
        LET dep == DepAt(i)
            seg == Seg(i)
            rets == {k \in 1..Len(seg) : seg[k].op = "return"}
        IN /\ dep.install_cmds = <<>> =>
                /\ seg # <<>>
                /\ seg[1] = Ev("handle_package_managers", <<dep.cmd>>, Len(dep.managers))
                /\ Cardinality(rets) = 1
                /\ \A k \in 1..Len(seg) :
                      seg[k].op = "command_exits" => \A r \in rets : r < k
                /\ UsableNames(dep) # {} =>
                      /\ seg[2].op = "handle_package"
                      /\ seg[2].arg[1] \in UsableNames(dep)
                      /\ seg[3].op = "os.system"
           /\ (dep.install_cmds # <<>> /\ dep.cmd \in path0) =>
                SelectOps(seg, "os.system") = <<>>

(* A strict run asked brew for a dependency whose cmd was already on PATH *)
C20_Witness ==
    /\ ~interactive
    /\ \E i \in Marks("_handle_dep") :
          /\ DepAt(i).install_cmds = <<>>
          /\ DepAt(i).cmd \in path0
          /\ SelectOps(Seg(i), "handle_package") # <<>>

====
